---- MODULE Spec2Model ----
(***************************************************************************)
(* A model of src/app/(tabs)/index.tsx: the expression evaluator           *)
(* calculateExpressionWithSteps (validate, tokenize, infix -> postfix,     *)
(* postfix evaluation with a step trace) and the App component around it   *)
(* (input buffer, result, steps, in-memory history, SQLite history store   *)
(* reached through asynchronous calls).                                    *)
(*                                                                         *)
(* Strings of the program are sequences of one-character strings.          *)
(* JavaScript numbers are exact rationals with IEEE-754's special values   *)
(* (signed zero, +-Infinity, NaN); rounding to 53 bits is not modelled.    *)
(***************************************************************************)
EXTENDS Integers, Sequences, FiniteSets, TLC

(***************************************************************************)
(* JavaScript values: numbers, strings (operator symbols) and undefined.   *)
(* A number is k = "fin" (s * n / d, d > 0, lowest terms; n = 0 keeps its  *)
(* sign), "inf" (s * Infinity), "nan", or "fn" (the value of a             *)
(* transcendental Math function, left symbolic: str names the function and *)
(* s, n, d its argument).                                                  *)
(***************************************************************************)
JSNum(k, s, n, d) == [type |-> "number", k |-> k, s |-> s, n |-> n, d |-> d, str |-> ""]

JSStr(c) == [type |-> "string", k |-> "", s |-> 1, n |-> 0, d |-> 1, str |-> c]

undefined == [type |-> "undefined", k |-> "", s |-> 1, n |-> 0, d |-> 1, str |-> ""]

NaN == JSNum("nan", 1, 0, 1)

Infinity(s) == JSNum("inf", s, 0, 1)

RECURSIVE Gcd(_, _)
Gcd(a, b) == IF b = 0 THEN a ELSE Gcd(b, a % b)

\* The finite number s * n / d in lowest terms.
Fin(s, n, d) ==
  IF n = 0 THEN JSNum("fin", s, 0, 1)
  ELSE LET g == Gcd(n, d) IN JSNum("fin", s, n \div g, d \div g)

IntNum(i) == IF i < 0 THEN Fin(-1, -i, 1) ELSE Fin(1, i, 1)

\* ToNumber of an operand: undefined converts to NaN.
ToNumber(v) == IF v.type = "number" THEN v ELSE NaN

Neg(v) == IF v.k = "nan" THEN v ELSE [v EXCEPT !.s = -v.s]

\* a + b on numbers.
NumAdd(a, b) ==
  IF a.k \notin {"fin", "inf"} \/ b.k \notin {"fin", "inf"} THEN NaN
  ELSE IF a.k = "inf" /\ b.k = "inf" THEN (IF a.s = b.s THEN a ELSE NaN)
  ELSE IF a.k = "inf" THEN a
  ELSE IF b.k = "inf" THEN b
  ELSE LET x == a.s * a.n * b.d + b.s * b.n * a.d
       IN IF x = 0
          THEN Fin(IF a.n = 0 /\ b.n = 0 /\ a.s = -1 /\ b.s = -1 THEN -1 ELSE 1, 0, 1)
          ELSE Fin(IF x < 0 THEN -1 ELSE 1, IF x < 0 THEN -x ELSE x, a.d * b.d)

\* a * b on numbers.
NumMul(a, b) ==
  IF a.k \notin {"fin", "inf"} \/ b.k \notin {"fin", "inf"} THEN NaN
  ELSE IF a.k = "inf" \/ b.k = "inf"
       THEN (IF (a.k = "fin" /\ a.n = 0) \/ (b.k = "fin" /\ b.n = 0)
             THEN NaN ELSE Infinity(a.s * b.s))
  ELSE Fin(a.s * b.s, a.n * b.n, a.d * b.d)

\* a / b on numbers: division by zero is Infinity or NaN, never an exception.
NumDiv(a, b) ==
  IF a.k \notin {"fin", "inf"} \/ b.k \notin {"fin", "inf"} THEN NaN
  ELSE IF a.k = "inf" THEN (IF b.k = "inf" THEN NaN ELSE Infinity(a.s * b.s))
  ELSE IF b.k = "inf" THEN Fin(a.s * b.s, 0, 1)
  ELSE IF b.n = 0 THEN (IF a.n = 0 THEN NaN ELSE Infinity(a.s * b.s))
  ELSE Fin(a.s * b.s, a.n * b.d, a.d * b.n)

(***************************************************************************)
(* Number.prototype.toString and template interpolation.  A decimal text   *)
(* is kept as the number it denotes; -0 prints as "0", so the two zeros    *)
(* have the same text.  Literal texts ("", "Error") are tagged "lit".      *)
(***************************************************************************)
Text(c) == [tag |-> "lit", lit |-> c, num |-> undefined]

toString(v) ==
  IF v.type = "undefined" THEN Text("undefined")
  ELSE IF v.type = "string" THEN Text(v.str)
  ELSE [tag |-> "num", lit |-> "",
        num |-> IF v.k = "fin" /\ v.n = 0 THEN Fin(1, 0, 1) ELSE v]

(***************************************************************************)
(* Characters and the two regular expressions.                             *)
(***************************************************************************)
DigitVal ==
  ("0" :> 0) @@ ("1" :> 1) @@ ("2" :> 2) @@ ("3" :> 3) @@ ("4" :> 4) @@
  ("5" :> 5) @@ ("6" :> 6) @@ ("7" :> 7) @@ ("8" :> 8) @@ ("9" :> 9)

IsDigit(c) == c \in DOMAIN DigitVal

\* The character class [0-9+\-*/.() ] of /^[0-9+\-*/.() ]+$/.
AllowedChars == DOMAIN DigitVal \cup {"+", "-", "*", "/", ".", "(", ")", " "}

\* Mutant: the class without its anchors, /[0-9+\-*/.() ]+/.
RegexTest_Unanchored(expr) == \E i \in 1..Len(expr) : expr[i] \in AllowedChars

\* /^[0-9+\-*/.() ]+$/.test(expr)
RegexTest(expr) == Len(expr) >= 1 /\ \A i \in 1..Len(expr) : expr[i] \in AllowedChars

\* The last index of the run of digits of s that starts at i (i - 1: no digit at i).
RECURSIVE DigitRunEnd(_, _)
DigitRunEnd(s, i) ==
  IF i <= Len(s) /\ IsDigit(s[i]) THEN DigitRunEnd(s, i + 1) ELSE i - 1

\* The end of the match of \d+(\.\d+)? that starts at digit i.
NumberMatchEnd(s, i) ==
  LET e1 == DigitRunEnd(s, i)
  IN IF e1 + 2 <= Len(s) /\ s[e1 + 1] = "." /\ IsDigit(s[e1 + 2])
     THEN DigitRunEnd(s, e1 + 2)
     ELSE e1

\* The successive matches of /\d+(\.\d+)?|[()+\-*/]/g in s from index i on.
RECURSIVE Scan(_, _)
Scan(s, i) ==
  IF i > Len(s) THEN <<>>
  ELSE IF IsDigit(s[i])
       THEN LET e == NumberMatchEnd(s, i) IN <<SubSeq(s, i, e)>> \o Scan(s, e + 1)
  ELSE IF s[i] \in {"(", ")", "+", "-", "*", "/"}
       THEN <<SubSeq(s, i, i)>> \o Scan(s, i + 1)
  ELSE Scan(s, i + 1)

\* expr.match(/.../g): null when nothing matches, else the list of matches.
Match(expr) == LET m == Scan(expr, 1) IN [null |-> m = <<>>, list |-> m]

RECURSIVE DigitsValue(_, _, _)
DigitsValue(s, i, j) ==
  IF j < i THEN 0 ELSE 10 * DigitsValue(s, i, j - 1) + DigitVal[s[j]]

RECURSIVE Pow10(_)
Pow10(k) == IF k = 0 THEN 1 ELSE 10 * Pow10(k - 1)

(***************************************************************************)
(* Number(t) for the strings the program passes to it: an optional sign,   *)
(* then digits with an optional fraction ("12", "1.5", "1.", ".5"); the    *)
(* empty string is 0; anything else is NaN.                                *)
(***************************************************************************)
Number(t) ==
  IF t = <<>> THEN Fin(1, 0, 1)
  ELSE LET sgn == IF t[1] = "-" THEN -1 ELSE 1
           b == IF t[1] \in {"+", "-"} THEN 2 ELSE 1
           e1 == DigitRunEnd(t, b)
           hasDot == e1 + 1 <= Len(t) /\ t[e1 + 1] = "."
           e2 == IF hasDot THEN DigitRunEnd(t, e1 + 2) ELSE e1
           nInt == e1 - b + 1
           nFrac == IF hasDot THEN e2 - (e1 + 1) ELSE 0
       IN IF e2 = Len(t) /\ nInt + nFrac > 0
          THEN Fin(sgn,
                   DigitsValue(t, b, e1) * Pow10(nFrac) + DigitsValue(t, e1 + 2, e2),
                   Pow10(nFrac))
          ELSE NaN

isNaN(v) == v.k = "nan"

(***************************************************************************)
(* calculateExpressionWithSteps: the operator table and the two passes.    *)
(***************************************************************************)
ops == ("+" :> 1) @@ ("-" :> 1) @@ ("*" :> 2) @@ ("/" :> 2)

\* t in ops, for a token t.
InOps(t) == Len(t) = 1 /\ t[1] \in DOMAIN ops

\* Mutant: ">" for ">=", so equal precedence no longer pops.
PrecGeq_Strict(x, y) == x \in DOMAIN ops /\ y \in DOMAIN ops /\ ops[x] > ops[y]

\* Mutant: "!(ops[x] < ops[y])", which is true when ops[x] is undefined.
PrecGeq_NotLess(x, y) == ~(x \in DOMAIN ops /\ y \in DOMAIN ops /\ ops[x] < ops[y])

\* ops[x] >= ops[y]: a key ops lacks gives undefined, and the comparison is false.
PrecGeq(x, y) == x \in DOMAIN ops /\ y \in DOMAIN ops /\ ops[x] >= ops[y]

\* Array.prototype.pop: undefined, and no change, on an empty array.
Pop(a) ==
  IF a = <<>> THEN [val |-> undefined, rest |-> <<>>]
  ELSE [val |-> a[Len(a)], rest |-> SubSeq(a, 1, Len(a) - 1)]

\* while (stack.length && ops[top] >= ops[t]) output.push(stack.pop());
RECURSIVE PopWhileGeq(_, _, _)
PopWhileGeq(stack, output, t) ==
  IF Len(stack) > 0 /\ PrecGeq(stack[Len(stack)], t)
  THEN PopWhileGeq(SubSeq(stack, 1, Len(stack) - 1),
                   Append(output, JSStr(stack[Len(stack)])), t)
  ELSE [stack |-> stack, output |-> output]

\* while (stack.length && top !== "(") output.push(stack.pop());
RECURSIVE PopUntilParen(_, _)
PopUntilParen(stack, output) ==
  IF Len(stack) > 0 /\ stack[Len(stack)] # "("
  THEN PopUntilParen(SubSeq(stack, 1, Len(stack) - 1),
                     Append(output, JSStr(stack[Len(stack)])))
  ELSE [stack |-> stack, output |-> output]

\* while (stack.length) output.push(stack.pop());
RECURSIVE PopAll(_, _)
PopAll(stack, output) ==
  IF Len(stack) > 0
  THEN PopAll(SubSeq(stack, 1, Len(stack) - 1), Append(output, JSStr(stack[Len(stack)])))
  ELSE [stack |-> stack, output |-> output]

\* The four branches of the callback of tokens.forEach.
OnNumber(c, t) == [stack |-> c.stack, output |-> Append(c.output, Number(t))]

OnOperator(c, t) ==
  LET p == PopWhileGeq(c.stack, c.output, t[1])
  IN [stack |-> Append(p.stack, t[1]), output |-> p.output]

OnLParen(c, t) == [stack |-> Append(c.stack, t[1]), output |-> c.output]

OnRParen(c, t) ==
  LET p == PopUntilParen(c.stack, c.output)
  IN [stack |-> Pop(p.stack).rest, output |-> p.output]

IsNumberToken(t) == ~isNaN(Number(t))

IsOperatorToken(t) == ~IsNumberToken(t) /\ InOps(t)

IsLParenToken(t) == ~IsNumberToken(t) /\ ~InOps(t) /\ t = <<"(">>

IsRParenToken(t) == ~IsNumberToken(t) /\ ~InOps(t) /\ t # <<"(">> /\ t = <<")">>

\* The callback of tokens.forEach on the pair c = [stack, output].
ConvertToken(c, t) ==
  IF IsNumberToken(t) THEN OnNumber(c, t)
  ELSE IF IsOperatorToken(t) THEN OnOperator(c, t)
  ELSE IF IsLParenToken(t) THEN OnLParen(c, t)
  ELSE IF IsRParenToken(t) THEN OnRParen(c, t)
  ELSE c

\* The switch on the operator: a token that is none of + - * / leaves res = 0.
BinOp(t, a, b) ==
  IF t = "+" THEN NumAdd(ToNumber(a), ToNumber(b))
  ELSE IF t = "-" THEN NumAdd(ToNumber(a), Neg(ToNumber(b)))
  ELSE IF t = "*" THEN NumMul(ToNumber(a), ToNumber(b))
  ELSE IF t = "/" THEN NumDiv(ToNumber(a), ToNumber(b))
  ELSE Fin(1, 0, 1)

\* `${a} ${t} ${b} = ${res}`, kept as its four interpolated texts.
StepText(a, t, b, res) ==
  [a |-> toString(a), t |-> t, b |-> toString(b), res |-> toString(res)]

\* Mutant: the operands popped in the other order (a first, then b).
EvalToken_SwappedPops(e, t) ==
  IF t.type = "number" THEN [calc |-> Append(e.calc, t), steps |-> e.steps]
  ELSE LET pa == Pop(e.calc)
           pb == Pop(pa.rest)
           res == BinOp(t.str, pa.val, pb.val)
       IN [calc |-> Append(pb.rest, res),
           steps |-> Append(e.steps, StepText(pa.val, t.str, pb.val, res))]

\* The callback of output.forEach on the pair e = [calc, steps].
EvalToken(e, t) ==
  IF t.type = "number" THEN [calc |-> Append(e.calc, t), steps |-> e.steps]
  ELSE LET pb == Pop(e.calc)
           pa == Pop(pb.rest)
           res == BinOp(t.str, pa.val, pb.val)
       IN [calc |-> Append(pa.rest, res),
           steps |-> Append(e.steps, StepText(pa.val, t.str, pb.val, res))]

Throw(msg) == [kind |-> "throw", msg |-> msg, result |-> undefined, steps |-> <<>>]

\* return { result: calc[0], steps }: calc[0] of an empty array is undefined.
Return(calc, steps) ==
  [kind |-> "return", msg |-> "",
   result |-> IF calc = <<>> THEN undefined ELSE calc[1], steps |-> steps]

NoOutcome == [kind |-> "none", msg |-> "", result |-> undefined, steps |-> <<>>]

RECURSIVE ConvertFrom(_, _, _)
ConvertFrom(c, tokens, i) ==
  IF i > Len(tokens) THEN c ELSE ConvertFrom(ConvertToken(c, tokens[i]), tokens, i + 1)

RECURSIVE EvalFrom(_, _, _)
EvalFrom(e, output, i) ==
  IF i > Len(output) THEN e ELSE EvalFrom(EvalToken(e, output[i]), output, i + 1)

\* The whole function, as the App calls it.
calculateExpressionWithSteps(x) ==
  IF ~RegexTest(x) THEN Throw("Invalid expression")
  ELSE LET m == Match(x)
       IN IF m.null THEN Throw("Invalid")
          ELSE LET c == ConvertFrom([stack |-> <<>>, output |-> <<>>], m.list, 1)
                   d == PopAll(c.stack, c.output)
                   e == EvalFrom([calc |-> <<>>, steps |-> <<>>], d.output, 1)
               IN Return(e.calc, e.steps)

(***************************************************************************)
(* The inputs of the evaluator: every string of at most MaxLen characters  *)
(* over Alphabet ("a" stands for any character outside the allowed class), *)
(* and the expressions of the grammar                                      *)
(*    expr ::= term | expr "+" term | expr "-" term                        *)
(*    term ::= factor | term "*" factor | term "/" factor                  *)
(*    factor ::= literal | "(" expr ")"                                    *)
(* with at most MaxNodes operators and pairs of parentheses together.      *)
(***************************************************************************)
MaxLen == 3

MaxNodes == 3

Alphabet == {"2", ".", "+", "-", "*", "/", "(", ")", " ", "a"}

Literals == {<<"2">>, <<" ", "1", ".", "5">>}

RECURSIVE Strings(_)
Strings(n) ==
  IF n = 0 THEN {<<>>}
  ELSE LET shorter == Strings(n - 1)
       IN shorter \cup {Append(w, c) : w \in {v \in shorter : Len(v) = n - 1}, c \in Alphabet}

RECURSIVE GenExpr(_)
RECURSIVE GenTerm(_)
RECURSIVE GenFactor(_)
GenFactor(n) ==
  IF n = 0 THEN Literals ELSE {<<"(">> \o e \o <<")">> : e \in GenExpr(n - 1)}

GenTerm(n) ==
  GenFactor(n) \cup
  UNION {{t \o <<o>> \o f : t \in GenTerm(i), o \in {"*", "/"}, f \in GenFactor(n - 1 - i)} :
         i \in 0..(n - 1)}

GenExpr(n) ==
  GenTerm(n) \cup
  UNION {{e \o <<o>> \o t : e \in GenExpr(i), o \in {"+", "-"}, t \in GenTerm(n - 1 - i)} :
         i \in 0..(n - 1)}

Inputs == Strings(MaxLen) \cup UNION {GenExpr(n) : n \in 0..MaxNodes}

(***************************************************************************)
(* One call of calculateExpressionWithSteps(expr), a step per statement    *)
(* and per callback of the two forEach loops.                              *)
(***************************************************************************)
VARIABLES expr, pc, tokens, ti, stack, output, oi, calc, steps, outcome

(***************************************************************************)
(* The App component: its useState cells, the position of initDB, the      *)
(* SQLite file, the statements sent to it and not yet run (dbQueue), the   *)
(* settled promises whose continuation has not run yet (replies), and the  *)
(* number of buttons pressed so far.  The steps cell is shownSteps here.   *)
(***************************************************************************)
VARIABLES db, input, result, shownSteps, history, isScientific,
          initPc, table, rows, dbQueue, replies, presses

evalVars == <<expr, pc, tokens, ti, stack, output, oi, calc, steps, outcome>>

appVars == <<db, input, result, shownSteps, history, isScientific,
             initPc, table, rows, dbQueue, replies, presses>>

vars == <<evalVars, appVars>>

\* The useState initial values, before the effect that runs initDB.
Unmounted ==
  /\ db = "null"
  /\ input = <<>>
  /\ result = Text("")
  /\ shownSteps = <<>>
  /\ history = <<>>
  /\ isScientific = FALSE
  /\ initPc = "unmounted"
  /\ table = FALSE
  /\ rows = <<>>
  /\ dbQueue = <<>>
  /\ replies = <<>>
  /\ presses = 0

Init ==
  /\ Unmounted
  /\ expr \in Inputs
  /\ pc = "test"
  /\ tokens = <<>>
  /\ ti = 1
  /\ stack = <<>>
  /\ output = <<>>
  /\ oi = 1
  /\ calc = <<>>
  /\ steps = <<>>
  /\ outcome = NoOutcome

\* if (!/^[0-9+\-*/.() ]+$/.test(expr)) throw new Error("Invalid expression");
Validate ==
  /\ pc = "test"
  /\ IF RegexTest(expr)
     THEN pc' = "match" /\ outcome' = outcome
     ELSE pc' = "done" /\ outcome' = Throw("Invalid expression")
  /\ UNCHANGED <<appVars, expr, tokens, ti, stack, output, oi, calc, steps>>

\* const tokens = expr.match(...); if (!tokens) throw new Error("Invalid");
Tokenize ==
  /\ pc = "match"
  /\ LET m == Match(expr)
     IN IF m.null
        THEN pc' = "done" /\ outcome' = Throw("Invalid") /\ tokens' = tokens
        ELSE pc' = "convert" /\ outcome' = outcome /\ tokens' = m.list
  /\ UNCHANGED <<appVars, expr, ti, stack, output, oi, calc, steps>>

Convert(c) ==
  /\ stack' = c.stack
  /\ output' = c.output
  /\ ti' = ti + 1
  /\ UNCHANGED <<appVars, expr, pc, tokens, oi, calc, steps, outcome>>

Cur == [stack |-> stack, output |-> output]

ConvNumber ==
  /\ pc = "convert" /\ ti <= Len(tokens)
  /\ IsNumberToken(tokens[ti])
  /\ Convert(OnNumber(Cur, tokens[ti]))

ConvOperator ==
  /\ pc = "convert" /\ ti <= Len(tokens)
  /\ IsOperatorToken(tokens[ti])
  /\ Convert(OnOperator(Cur, tokens[ti]))

ConvLParen ==
  /\ pc = "convert" /\ ti <= Len(tokens)
  /\ IsLParenToken(tokens[ti])
  /\ Convert(OnLParen(Cur, tokens[ti]))

ConvRParen ==
  /\ pc = "convert" /\ ti <= Len(tokens)
  /\ IsRParenToken(tokens[ti])
  /\ Convert(OnRParen(Cur, tokens[ti]))

\* while (stack.length) output.push(stack.pop());
Drain ==
  /\ pc = "convert" /\ ti > Len(tokens)
  /\ LET d == PopAll(stack, output) IN stack' = d.stack /\ output' = d.output
  /\ pc' = "evaluate"
  /\ UNCHANGED <<appVars, expr, tokens, ti, oi, calc, steps, outcome>>

Evaluate(e) ==
  /\ calc' = e.calc
  /\ steps' = e.steps
  /\ oi' = oi + 1
  /\ UNCHANGED <<appVars, expr, pc, tokens, ti, stack, output, outcome>>

EvalNumber ==
  /\ pc = "evaluate" /\ oi <= Len(output)
  /\ output[oi].type = "number"
  /\ Evaluate(EvalToken([calc |-> calc, steps |-> steps], output[oi]))

EvalOperator ==
  /\ pc = "evaluate" /\ oi <= Len(output)
  /\ output[oi].type # "number"
  /\ Evaluate(EvalToken([calc |-> calc, steps |-> steps], output[oi]))

\* return { result: calc[0], steps };
ReturnResult ==
  /\ pc = "evaluate" /\ oi > Len(output)
  /\ outcome' = Return(calc, steps)
  /\ pc' = "done"
  /\ UNCHANGED <<appVars, expr, tokens, ti, stack, output, oi, calc, steps>>

Next ==
  \/ Validate
  \/ Tokenize
  \/ ConvNumber
  \/ ConvOperator
  \/ ConvLParen
  \/ ConvRParen
  \/ Drain
  \/ EvalNumber
  \/ EvalOperator
  \/ ReturnResult

Spec == Init /\ [][Next]_vars

\* The stepwise call and the function agree.
StepwiseIsFunction == pc = "done" => outcome = calculateExpressionWithSteps(expr)

(***************************************************************************)
(* The reference evaluator: recursive descent over the characters of the   *)
(* grammar above.  "*" and "/" bind tighter than "+" and "-", operators of *)
(* one level associate to the left, a parenthesised expression is a        *)
(* factor.  Each function returns [ok, pos, val, steps]: whether it parsed, *)
(* the index after what it parsed, the value, and the operations in the    *)
(* order they were completed.                                              *)
(***************************************************************************)
RefFail == [ok |-> FALSE, pos |-> 0, val |-> undefined, steps |-> <<>>]

RECURSIVE RefSkip(_, _)
RefSkip(s, i) == IF i <= Len(s) /\ s[i] = " " THEN RefSkip(s, i + 1) ELSE i

RefLiteral(s, i) ==
  LET e1 == DigitRunEnd(s, i)
      frac == e1 + 2 <= Len(s) /\ s[e1 + 1] = "." /\ IsDigit(s[e1 + 2])
      e2 == IF frac THEN DigitRunEnd(s, e1 + 2) ELSE e1
      k == IF frac THEN e2 - (e1 + 1) ELSE 0
  IN [ok |-> TRUE, pos |-> e2 + 1,
      val |-> Fin(1, DigitsValue(s, i, e1) * Pow10(k) + DigitsValue(s, e1 + 2, e2), Pow10(k)),
      steps |-> <<>>]

RefApply(o, l, r) ==
  LET v == IF o = "+" THEN NumAdd(l.val, r.val)
           ELSE IF o = "-" THEN NumAdd(l.val, Neg(r.val))
           ELSE IF o = "*" THEN NumMul(l.val, r.val)
           ELSE NumDiv(l.val, r.val)
  IN [ok |-> TRUE, pos |-> r.pos, val |-> v,
      steps |-> l.steps \o r.steps \o <<StepText(l.val, o, r.val, v)>>]

RECURSIVE RefExpr(_, _)
RECURSIVE RefExprRest(_, _)
RECURSIVE RefTerm(_, _)
RECURSIVE RefTermRest(_, _)
RECURSIVE RefFactor(_, _)
RefFactor(s, i) ==
  LET j == RefSkip(s, i)
  IN IF j > Len(s) THEN RefFail
     ELSE IF IsDigit(s[j]) THEN RefLiteral(s, j)
     ELSE IF s[j] = "("
          THEN LET e == RefExpr(s, j + 1)
                   c == RefSkip(s, e.pos)
               IN IF e.ok /\ c <= Len(s) /\ s[c] = ")" THEN [e EXCEPT !.pos = c + 1] ELSE RefFail
     ELSE RefFail

RefTermRest(s, l) ==
  LET j == RefSkip(s, l.pos)
  IN IF j <= Len(s) /\ s[j] \in {"*", "/"}
     THEN LET r == RefFactor(s, j + 1)
          IN IF r.ok THEN RefTermRest(s, RefApply(s[j], l, r)) ELSE RefFail
     ELSE l

RefTerm(s, i) == LET f == RefFactor(s, i) IN IF f.ok THEN RefTermRest(s, f) ELSE RefFail

RefExprRest(s, l) ==
  LET j == RefSkip(s, l.pos)
  IN IF j <= Len(s) /\ s[j] \in {"+", "-"}
     THEN LET r == RefTerm(s, j + 1)
          IN IF r.ok THEN RefExprRest(s, RefApply(s[j], l, r)) ELSE RefFail
     ELSE l

RefExpr(s, i) == LET t == RefTerm(s, i) IN IF t.ok THEN RefExprRest(s, t) ELSE RefFail

\* The reference outcome of a whole string; ok exactly when it is well formed.
Reference(s) ==
  LET r == RefExpr(s, 1)
  IN IF r.ok /\ RefSkip(s, r.pos) > Len(s) THEN r ELSE RefFail

WellFormed(s) == RegexTest(s) /\ Reference(s).ok

(***************************************************************************)
(* C1: for a well-formed expression the call returns, and its result is    *)
(* the value of the reference evaluator (precedence of * and / over + and  *)
(* -, left associativity, parentheses first).                              *)
(***************************************************************************)
C1_ValueIsReference ==
  (pc = "done" /\ WellFormed(expr)) =>
    (outcome.kind = "return" /\ outcome.result = Reference(expr).val)

\* A parenthesised sum was multiplied, or a quotient divided again, and returned.
C1_Witness ==
  /\ pc = "done" /\ WellFormed(expr) /\ outcome.kind = "return"
  /\ Len(outcome.steps) = 2
  /\ \/ outcome.steps[1].t = "+" /\ outcome.steps[2].t = "*" /\ "(" \in {expr[i] : i \in 1..Len(expr)}
     \/ outcome.steps[1].t = "/" /\ outcome.steps[2].t = "/"
\* The left operand of some step is undefined.
Underflowed == \E i \in 1..Len(steps) : steps[i].a = Text("undefined")

(***************************************************************************)
(* C2: an operator applied to fewer than two operands makes the call fail  *)
(* (MalformedExpression); it never returns.  The left operand is popped    *)
(* second, so it is undefined exactly when fewer than two values were on   *)
(* the operand stack.                                                      *)
(***************************************************************************)
C2_UnderflowFails == (pc = "done" /\ Underflowed) => outcome.kind = "throw"

(***************************************************************************)
(* C3: a returned outcome comes from an operand stack of exactly one       *)
(* value, which is the result; the result is never absent.                 *)
(***************************************************************************)
C3_ExactlyOneValue ==
  (pc = "done" /\ outcome.kind = "return") =>
    (Len(calc) = 1 /\ outcome.result = calc[1] /\ outcome.result.type = "number")

(***************************************************************************)
(* C4: the postfix sequence handed to evaluation holds no parenthesis, and *)
(* no step has "(" as its operator.                                        *)
(***************************************************************************)
C4_NoParenInPostfix ==
  (pc \in {"evaluate", "done"}) =>
    /\ \A i \in 1..Len(output) : output[i].str \notin {"(", ")"}
    /\ \A i \in 1..Len(steps) : steps[i].t \notin {"(", ")"}

\* The positions of the operators of a string.
OperatorChars(s) == {i \in 1..Len(s) : s[i] \in {"+", "-", "*", "/"}}

(***************************************************************************)
(* C5: for a well-formed expression there is one step per operator of the  *)
(* expression, the steps are those of the reference evaluator in its order *)
(* (left operand's, right operand's, then the operator's own; each with    *)
(* result = left op right), and the last step's result is the value        *)
(* returned.                                                               *)
(***************************************************************************)
C5_StepTrace ==
  (pc = "done" /\ WellFormed(expr)) =>
    /\ outcome.kind = "return"
    /\ Len(outcome.steps) = Cardinality(OperatorChars(expr))
    /\ outcome.steps = Reference(expr).steps
    /\ outcome.steps # <<>> =>
         outcome.steps[Len(outcome.steps)].res = toString(outcome.result)

\* A product was resolved before the sum written to its left.
C5_Witness ==
  /\ pc = "done" /\ WellFormed(expr) /\ outcome.kind = "return"
  /\ Len(outcome.steps) = 2
  /\ outcome.steps[1].t \in {"*", "/"}
  /\ outcome.steps[2].t \in {"+", "-"}
  /\ outcome.steps[2].b = outcome.steps[1].res

\* The messages of the two throws, both of kind InvalidExpression.
InvalidExpression == {"Invalid expression", "Invalid"}

HasInvalidChar(s) == \E i \in 1..Len(s) : s[i] \notin AllowedChars

NoTokenChar(s) == Len(s) >= 1 /\ \A i \in 1..Len(s) : s[i] \in {" ", "."}

Untouched ==
  /\ tokens = <<>> /\ ti = 1 /\ stack = <<>> /\ output = <<>>
  /\ oi = 1 /\ calc = <<>> /\ steps = <<>>

(***************************************************************************)
(* C6: an input with a character outside the allowed class fails as        *)
(* InvalidExpression with no token, stack entry or step ever produced; an  *)
(* input of allowed characters none of which starts a token (spaces and    *)
(* dots only) fails as InvalidExpression too.                              *)
(***************************************************************************)
C6_InvalidFails ==
  /\ HasInvalidChar(expr) => (Untouched /\ pc \in {"test", "done"})
  /\ (pc = "done" /\ (HasInvalidChar(expr) \/ NoTokenChar(expr))) =>
       (outcome.kind = "throw" /\ outcome.msg \in InvalidExpression /\ Untouched)

\* An input with digits and one disallowed character has failed.
C6_Witness ==
  /\ pc = "done" /\ HasInvalidChar(expr)
  /\ \E i \in 1..Len(expr) : IsDigit(expr[i])
  /\ outcome.kind = "throw"

\* The index of the topmost "(" of the stack, 0 when there is none.
TopParen(st) ==
  LET P == {i \in 1..Len(st) : st[i] = "("}
  IN IF P = {} THEN 0 ELSE CHOOSE i \in P : \A j \in P : j <= i

\* The lengths of the runs of operators above each "(" and above the bottom.
RunAbove(st, i) ==
  Cardinality({j \in (i + 1)..Len(st) : \A m \in (i + 1)..j : st[m] # "("})

(***************************************************************************)
(* C10: during the infix-to-postfix pass no "(" reaches the output (an     *)
(* operator token never pops one), and the operators above the topmost "(" *)
(* (or of the whole stack when it holds none) have strictly increasing     *)
(* precedence from bottom to top, so at most two operators lie above any   *)
(* "(".                                                                    *)
(***************************************************************************)
C10_StackOrder ==
  pc = "convert" =>
    /\ \A i \in 1..Len(output) : output[i].str # "("
    /\ \A i \in 1..Len(stack) : stack[i] \in DOMAIN ops \cup {"("}
    /\ \A i \in (TopParen(stack) + 1)..Len(stack) : \A j \in (i + 1)..Len(stack) :
         ops[stack[i]] < ops[stack[j]]
    /\ \A i \in 0..Len(stack) : (i = 0 \/ stack[i] = "(") => RunAbove(stack, i) <= 2

\* An operator token was just pushed as the second operator above a "(".
C10_Witness ==
  /\ pc = "convert" /\ ti > 1 /\ IsOperatorToken(tokens[ti - 1])
  /\ Len(stack) >= 3
  /\ stack[Len(stack) - 2] = "("
  /\ stack[Len(stack) - 1] \in DOMAIN ops
  /\ stack[Len(stack)] \in DOMAIN ops
(***************************************************************************)
(* The App.  A handler runs to its first await, and a continuation from    *)
(* one await to the next, as one step: React applies the setState calls of *)
(* one such run together.  SQLite runs the statements of the connection in *)
(* the order they were sent and their promises settle in that order.  A    *)
(* row is kept as its input and result columns; the order of rows is the   *)
(* order of their ids.                                                     *)
(***************************************************************************)
MaxInput == 3

MaxPresses == 4

\* SELECT ... ORDER BY id DESC LIMIT 20
HistoryLimit == 20

\* The buttons of basicButtons that are modelled (besides "=" and "C").
Keys == {"2", "+", "."}

\* The buttons of scientificButtons that are modelled: "sin" and "!".
SciButtons == {"sin", "!"}

RECURSIVE Reverse(_)
Reverse(q) == IF q = <<>> THEN <<>> ELSE Append(Reverse(Tail(q)), Head(q))

Take(q, n) == SubSeq(q, 1, IF Len(q) < n THEN Len(q) ELSE n)

Entry(fn, arg, res) == [input |-> [fn |-> fn, arg |-> arg], result |-> res]

NoEntry == Entry("", <<>>, Text(""))

Request(op, e) == [op |-> op, entry |-> e]

Reply(op, ok, rs) == [op |-> op, ok |-> ok, rows |-> rs]

\* The row a previous run of the App left in the table.
OldRow == Entry("", <<"2">>, toString(Number(<<"2">>)))

\* The component has mounted and initDB awaits openDatabaseAsync; the file is
\* new, or holds the table and a row of a previous run.
InitApp ==
  /\ expr = <<>> /\ pc = "test" /\ tokens = <<>> /\ ti = 1 /\ stack = <<>>
  /\ output = <<>> /\ oi = 1 /\ calc = <<>> /\ steps = <<>> /\ outcome = NoOutcome
  /\ db = "null"
  /\ input = <<>>
  /\ result = Text("")
  /\ shownSteps = <<>>
  /\ history = <<>>
  /\ isScientific = FALSE
  /\ initPc = "open"
  /\ table \in BOOLEAN
  /\ rows = IF table THEN <<OldRow>> ELSE <<>>
  /\ dbQueue = <<>>
  /\ replies = <<>>
  /\ presses = 0

\* openDatabaseAsync resolves: setDb(database), then execAsync(CREATE TABLE ...).
OpenResolved ==
  /\ initPc = "open"
  /\ db' = "database"
  /\ dbQueue' = Append(dbQueue, Request("create", NoEntry))
  /\ initPc' = "create"
  /\ UNCHANGED <<evalVars, input, result, shownSteps, history, isScientific,
                 table, rows, replies, presses>>

\* openDatabaseAsync rejects: initDB ends there.
OpenRejected ==
  /\ initPc = "open"
  /\ initPc' = "failed"
  /\ UNCHANGED <<evalVars, db, input, result, shownSteps, history, isScientific,
                 table, rows, dbQueue, replies, presses>>

Pressed == presses < MaxPresses /\ presses' = presses + 1

\* handlePress(v), v neither "=" nor "C": setInput((p) => p + v).
PressKey ==
  /\ Pressed
  /\ Len(input) < MaxInput
  /\ \E v \in Keys : input' = Append(input, v)
  /\ UNCHANGED <<evalVars, db, result, shownSteps, history, isScientific,
                 initPc, table, rows, dbQueue, replies>>

\* handlePress("C")
PressC ==
  /\ Pressed
  /\ input' = <<>>
  /\ result' = Text("")
  /\ shownSteps' = <<>>
  /\ UNCHANGED <<evalVars, db, history, isScientific, initPc, table, rows, dbQueue, replies>>

\* The try block of calculateResult and calculateScientific after the result
\* is known: the three setState calls and, if (db), the INSERT.
ShowAndRecord(res, trace, e) ==
  /\ result' = res
  /\ shownSteps' = trace
  /\ history' = <<e>> \o history
  /\ dbQueue' = IF db # "null" THEN Append(dbQueue, Request("insert", e)) ELSE dbQueue

\* Mutant: the catch block without setSteps([]).
ShowError_KeepsSteps ==
  /\ result' = Text("Error")
  /\ shownSteps' = shownSteps

\* catch { setResult("Error"); setSteps([]); }
ShowError ==
  /\ result' = Text("Error")
  /\ shownSteps' = <<>>

\* handlePress("="): calculateResult up to its await.  res.toString() throws
\* when res is undefined.
calculateResult ==
  /\ Pressed
  /\ LET o == calculateExpressionWithSteps(input)
     IN IF o.kind = "throw" \/ o.result.type = "undefined"
        THEN ShowError /\ UNCHANGED <<history, dbQueue>>
        ELSE ShowAndRecord(toString(o.result), o.steps,
                           Entry("", input, toString(o.result)))
  /\ UNCHANGED <<evalVars, db, input, isScientific, initPc, table, rows, replies>>

RECURSIVE Product(_, _)
Product(i, n) == IF i > n THEN 1 ELSE i * Product(i + 1, n)

\* factorial(n), for the numbers Number(input) can be (never an infinity):
\* NaN below zero, else the product of 2..n, which is 1 when the loop does not
\* run (n < 2, n NaN).  Above 12! the product is left symbolic, as "!" of n.
factorial(v) ==
  IF v.k = "fin" /\ v.s = -1 /\ v.n > 0 THEN NaN
  ELSE IF v.k = "fin" /\ v.n \div v.d > 12 THEN JSNum("!", 1, v.n \div v.d, 1)
  ELSE IF v.k = "fin" THEN IntNum(Product(2, v.n \div v.d))
  ELSE IntNum(1)

\* The switch of calculateScientific.  "pi" is either constant; any other name
\* is a Math function of one argument, whose value is left symbolic.
Scientific(func, v) ==
  IF func = "^" THEN NumMul(v, v)
  ELSE IF func = "!" THEN factorial(v)
  ELSE IF func = "pi" THEN JSNum("pi", 1, 0, 1)
  ELSE IF v.k = "nan" THEN NaN
  ELSE JSNum(func, v.s, v.n, v.d)

\* `${func}(${v}) = ${res}`
SciStepText(func, v, res) ==
  [a |-> toString(v), t |-> func, b |-> Text(""), res |-> res]

\* calculateScientific(func) up to its await; its buttons show in scientific mode.
calculateScientific ==
  /\ Pressed
  /\ isScientific
  /\ \E func \in SciButtons :
       LET v == Number(input)
           res == toString(Scientific(func, v))
       IN ShowAndRecord(res, <<SciStepText(func, v, res)>>, Entry(func, input, res))
  /\ UNCHANGED <<evalVars, db, input, isScientific, initPc, table, rows, replies>>

\* The mode toggle: setIsScientific(prev => !prev).
ToggleMode ==
  /\ Pressed
  /\ isScientific' = ~isScientific
  /\ UNCHANGED <<evalVars, db, input, result, shownSteps, history,
                 initPc, table, rows, dbQueue, replies>>

\* clearHistory up to its await: if (!db) return; execAsync("DELETE ...").
clearHistory ==
  /\ Pressed
  /\ dbQueue' = IF db = "null" THEN dbQueue ELSE Append(dbQueue, Request("delete", NoEntry))
  /\ UNCHANGED <<evalVars, db, input, result, shownSteps, history, isScientific,
                 initPc, table, rows, replies>>

\* SQLite runs the oldest statement: it succeeds, or fails (an I/O error; a
\* statement on the table before the table exists).
DbRun ==
  /\ dbQueue # <<>>
  /\ LET q == Head(dbQueue)
     IN \E ok \in (IF q.op = "create" \/ table THEN BOOLEAN ELSE {FALSE}) :
          /\ table' = (table \/ (ok /\ q.op = "create"))
          /\ rows' = IF ok /\ q.op = "insert" THEN Append(rows, q.entry)
                     ELSE IF ok /\ q.op = "delete" THEN <<>>
                     ELSE rows
          /\ replies' = Append(replies,
                          Reply(q.op, ok,
                                IF ok /\ q.op = "select"
                                THEN Take(Reverse(rows), HistoryLimit) ELSE <<>>))
  /\ dbQueue' = Tail(dbQueue)
  /\ UNCHANGED <<evalVars, db, input, result, shownSteps, history, isScientific,
                 initPc, presses>>

\* initDB after await execAsync(CREATE TABLE ...): getAllAsync(SELECT ...).
ResumeCreate ==
  /\ replies # <<>> /\ Head(replies).op = "create"
  /\ replies' = Tail(replies)
  /\ IF Head(replies).ok
     THEN initPc' = "select" /\ dbQueue' = Append(dbQueue, Request("select", NoEntry))
     ELSE initPc' = "failed" /\ dbQueue' = dbQueue
  /\ UNCHANGED <<evalVars, db, input, result, shownSteps, history, isScientific,
                 table, rows, presses>>

\* initDB after await getAllAsync: setHistory(rows).
ResumeSelect ==
  /\ replies # <<>> /\ Head(replies).op = "select"
  /\ replies' = Tail(replies)
  /\ IF Head(replies).ok
     THEN initPc' = "done" /\ history' = Head(replies).rows
     ELSE initPc' = "failed" /\ history' = history
  /\ UNCHANGED <<evalVars, db, input, result, shownSteps, isScientific,
                 table, rows, dbQueue, presses>>

\* calculateResult or calculateScientific after await runAsync: the function
\* ends, or the rejection lands in its catch.
ResumeInsert ==
  /\ replies # <<>> /\ Head(replies).op = "insert"
  /\ replies' = Tail(replies)
  /\ IF Head(replies).ok THEN UNCHANGED <<result, shownSteps>> ELSE ShowError
  /\ UNCHANGED <<evalVars, db, input, history, isScientific,
                 initPc, table, rows, dbQueue, presses>>

\* clearHistory after await execAsync: setHistory([]); a rejection is not caught.
ResumeDelete ==
  /\ replies # <<>> /\ Head(replies).op = "delete"
  /\ replies' = Tail(replies)
  /\ history' = IF Head(replies).ok THEN <<>> ELSE history
  /\ UNCHANGED <<evalVars, db, input, result, shownSteps, isScientific,
                 initPc, table, rows, dbQueue, presses>>

NextApp ==
  \/ OpenResolved
  \/ OpenRejected
  \/ PressKey
  \/ PressC
  \/ calculateResult
  \/ calculateScientific
  \/ ToggleMode
  \/ clearHistory
  \/ DbRun
  \/ ResumeCreate
  \/ ResumeSelect
  \/ ResumeInsert
  \/ ResumeDelete

SpecApp == InitApp /\ [][NextApp]_vars

(***************************************************************************)
(* C7: a record is inserted into the history store exactly once for each   *)
(* successful calculation and each scientific-function application, and    *)
(* never otherwise: a step of the App prepends an entry to the history on  *)
(* a button press exactly when it sends one INSERT of that entry.          *)
(***************************************************************************)
C7_InsertOncePerResult ==
  [][LET recorded == presses' = presses + 1 /\ Len(history') = Len(history) + 1
         inserted == /\ Len(dbQueue') = Len(dbQueue) + 1
                     /\ dbQueue'[Len(dbQueue')].op = "insert"
     IN /\ recorded <=> inserted
        /\ inserted => dbQueue'[Len(dbQueue')].entry = history'[1]]_vars

(***************************************************************************)
(* C8: when the result shown is "Error" no step is shown, and when a step  *)
(* is shown the result is neither empty nor "Error".                       *)
(***************************************************************************)
C8_NoPartialOutcome ==
  /\ result = Text("Error") => shownSteps = <<>>
  /\ shownSteps # <<>> => result \notin {Text(""), Text("Error")}

\* "Error" is shown for the input whose calculation, with steps, was recorded:
\* its INSERT was rejected after the result and the steps had been shown.
C8_Witness ==
  /\ result = Text("Error")
  /\ history # <<>>
  /\ history[1].input = [fn |-> "", arg |-> input]
  /\ WellFormed(input)
  /\ calculateExpressionWithSteps(input).steps # <<>>

\* initDB has finished and no statement or continuation is pending.
Quiescent == initPc = "done" /\ dbQueue = <<>> /\ replies = <<>>

(***************************************************************************)
(* C9: once initDB has finished and no statement or continuation is        *)
(* pending, the history list holds the (input, result) pairs of the rows   *)
(* of the table, most recent first.                                        *)
(***************************************************************************)
C9_HistoryIsStore == Quiescent => history = Reverse(rows)
====
